---- MODULE Spec2Model ----
(***************************************************************************)
(* Model of the print service of src/index.js: the API-key middleware and  *)
(* the POST /print handler with its three delivery modes (os, tcp, ipp).   *)
(*                                                                         *)
(* A JavaScript string is modelled as a sequence of tokens; the string is  *)
(* the concatenation of its tokens.  A token is a single character, or one *)
(* of the multi-character tokens of TokenChars ("data:", "base64,", ...),  *)
(* which never arise from the concatenation of other tokens of the input   *)
(* sets.  Bytes are integers 0..255.                                       *)
(***************************************************************************)
EXTENDS Integers, Sequences, FiniteSets, TLC

\* ------------------------------------------------------------------ bounds
\* Number of requests that can be in flight in the concurrent specification.
NumSlots == 2
\* Largest value of the millisecond clock read by Date.now().
MaxClock == 1
\* Longest data part (in characters) of the enumerated payload strings.
MaxLen == 4
\* Most bytes a writeFileSync that throws has written before.
MaxKept == 1

\* --------------------------------------------------------- program constants
API_KEY == <<"1234">>
RAW_PORT == 9100
IPP_PORT == 631
HTTP_OK == 200
HTTP_NO_CONTENT == 204
HTTP_BAD_REQUEST == 400
HTTP_UNAUTHORIZED == 401
HTTP_TOO_LARGE == 413
HTTP_SERVER_ERROR == 500

\* ------------------------------------------------------- JavaScript values
Undef == [t |-> "undefined", v |-> <<>>]
Null == [t |-> "null", v |-> <<>>]
\* A JSON number other than 0 (for instance 123): truthy, and no string.
Num == [t |-> "number", v |-> <<>>]
Str(s) == [t |-> "string", v |-> s]

IsString(x) == x.t = "string"
\* ToBoolean: undefined, null and "" are falsy.
Truthy(x) == x.t = "number" \/ (x.t = "string" /\ x.v # <<>>)
\* a || b
OrElse(a, b) == IF Truthy(a) THEN a ELSE b

\* ------------------------------------------------------------ characters
\* The printable ASCII characters, code 32 (space) to 126 (~); the grave
\* accent (code 96) is written GRAVE.
Ascii ==
  << " ", "!", "\"", "#", "$", "%", "&", "'", "(", ")", "*", "+", ",", "-", ".", "/",
     "0", "1", "2", "3", "4", "5", "6", "7", "8", "9", ":", ";", "<", "=", ">", "?",
     "@", "A", "B", "C", "D", "E", "F", "G", "H", "I", "J", "K", "L", "M", "N", "O",
     "P", "Q", "R", "S", "T", "U", "V", "W", "X", "Y", "Z", "[", "\\", "]", "^", "_",
     "GRAVE", "a", "b", "c", "d", "e", "f", "g", "h", "i", "j", "k", "l", "m", "n", "o",
     "p", "q", "r", "s", "t", "u", "v", "w", "x", "y", "z", "{", "|", "}", "~" >>

\* The line terminators of ECMAScript, which the dot of a regular expression
\* does not match: U+000A, U+000D, U+2028 and U+2029.
LineFeed == "\n"
CarriageReturn == "\r"
LineSeparator == "U+2028"
ParagraphSeparator == "U+2029"
LineTerminators == {LineFeed, CarriageReturn, LineSeparator, ParagraphSeparator}

\* The code of a character below U+0080.
CharCode(c) ==
  CASE c = LineFeed -> 10
    [] c = CarriageReturn -> 13
    [] OTHER -> 31 + (CHOOSE i \in 1..Len(Ascii) : Ascii[i] = c)

\* The UTF-8 bytes of a character.
CharBytes(c) ==
  CASE c = LineSeparator -> <<226, 128, 168>>
    [] c = ParagraphSeparator -> <<226, 128, 169>>
    [] OTHER -> <<CharCode(c)>>

\* The characters of a token.
TokenChars(t) ==
  CASE t = "data:" -> << "d", "a", "t", "a", ":" >>
    [] t = "base64," -> << "b", "a", "s", "e", "6", "4", "," >>
    [] t = "application/pdf" ->
         << "a", "p", "p", "l", "i", "c", "a", "t", "i", "o", "n", "/", "p", "d", "f" >>
    [] OTHER -> << t >>

RECURSIVE Chars(_)
Chars(s) == IF s = <<>> THEN <<>> ELSE TokenChars(Head(s)) \o Chars(Tail(s))

RECURSIVE CharsBytes(_)
CharsBytes(cs) == IF cs = <<>> THEN <<>> ELSE CharBytes(Head(cs)) \o CharsBytes(Tail(cs))

\* The UTF-8 bytes of a string.
Utf8(s) == CharsBytes(Chars(s))

\* ---------------------------------------------------------------- base64
B64Alphabet ==
  << "A", "B", "C", "D", "E", "F", "G", "H", "I", "J", "K", "L", "M", "N", "O", "P",
     "Q", "R", "S", "T", "U", "V", "W", "X", "Y", "Z", "a", "b", "c", "d", "e", "f",
     "g", "h", "i", "j", "k", "l", "m", "n", "o", "p", "q", "r", "s", "t", "u", "v",
     "w", "x", "y", "z", "0", "1", "2", "3", "4", "5", "6", "7", "8", "9", "+", "/" >>

\* The decoder of Node also takes the URL-safe characters.
IsB64Char(c) == c \in {"-", "_"} \/ \E i \in 1..64 : B64Alphabet[i] = c

B64Val(c) ==
  CASE c = "-" -> 62
    [] c = "_" -> 63
    [] OTHER -> (CHOOSE i \in 1..64 : B64Alphabet[i] = c) - 1

\* The characters before the first "=": the decoder stops at padding.
RECURSIVE UpToPadding(_)
UpToPadding(cs) ==
  IF cs = <<>> \/ Head(cs) = "=" THEN <<>>
  ELSE << Head(cs) >> \o UpToPadding(Tail(cs))

\* Three bytes of four sextets; a trailing group of 2 or 3 sextets gives 1 or
\* 2 bytes, and a lone trailing sextet gives none.
RECURSIVE SextetsToBytes(_)
SextetsToBytes(x) ==
  IF Len(x) < 2 THEN <<>>
  ELSE LET b1 == (x[1] * 4 + (x[2] \div 16)) % 256
       IN IF Len(x) = 2 THEN << b1 >>
          ELSE LET b2 == ((x[2] % 16) * 16 + (x[3] \div 4)) % 256
               IN IF Len(x) = 3 THEN << b1, b2 >>
                  ELSE << b1, b2, ((x[3] % 4) * 64 + x[4]) % 256 >>
                         \o SextetsToBytes(SubSeq(x, 5, Len(x)))

\* Buffer.from(str, "base64"): characters outside the alphabet are skipped,
\* decoding stops at the first "=", and nothing is ever rejected.
BufferFromBase64(s) ==
  LET legal == SelectSeq(UpToPadding(Chars(s)), IsB64Char)
  IN SextetsToBytes([i \in 1..Len(legal) |-> B64Val(legal[i])])

\* The standard base64 encoding (RFC 4648), padded with "=": what
\* buffer.toString("base64") gives; used to state round trips.
RECURSIVE Base64Encode(_)
Base64Encode(b) ==
  IF b = <<>> THEN <<>>
  ELSE LET c1 == B64Alphabet[(b[1] \div 4) + 1]
       IN IF Len(b) = 1
          THEN << c1, B64Alphabet[(b[1] % 4) * 16 + 1], "=", "=" >>
          ELSE LET c2 == B64Alphabet[(b[1] % 4) * 16 + (b[2] \div 16) + 1]
               IN IF Len(b) = 2
                  THEN << c1, c2, B64Alphabet[(b[2] % 16) * 4 + 1], "=" >>
                  ELSE << c1, c2,
                          B64Alphabet[(b[2] % 16) * 4 + (b[3] \div 64) + 1],
                          B64Alphabet[(b[3] % 64) + 1] >>
                         \o Base64Encode(SubSeq(b, 4, Len(b)))

\* ------------------------------------------------------ regular expressions
NoLineTerminator(s) == \A i \in 1..Len(s) : s[i] \notin LineTerminators

\* fileBase64.match(/base64,(.*)$/): the leftmost "base64," that is followed
\* to the end of the string by characters other than line terminators.
FileMatchAt(s) ==
  {i \in 1..Len(s) : s[i] = "base64," /\ NoLineTerminator(SubSeq(s, i + 1, Len(s)))}

FileMatches(s) == FileMatchAt(s) # {}

FileMatchGroup(s) ==
  LET i == CHOOSE k \in FileMatchAt(s) : \A m \in FileMatchAt(s) : k <= m
  IN SubSeq(s, i + 1, Len(s))

\* raw.match(/^data:.*;base64,(.*)$/): the string starts with "data:", holds no
\* line terminator after it, and the greedy .* leaves the group what follows
\* the last ";base64,".
RawMatchAt(s) ==
  {i \in 2..(Len(s) - 1) : s[i] = ";" /\ s[i + 1] = "base64,"}

\* RawMatches without the ^data: anchor.
RawMatchesUnanchored(s) ==
  /\ NoLineTerminator(s)
  /\ RawMatchAt(s) # {}

RawMatches(s) ==
  /\ s # <<>>
  /\ s[1] = "data:"
  /\ NoLineTerminator(s)
  /\ RawMatchAt(s) # {}

RawMatchGroup(s) ==
  LET i == CHOOSE k \in RawMatchAt(s) : \A m \in RawMatchAt(s) : k >= m
  IN SubSeq(s, i + 2, Len(s))

\* ------------------------------------------------------------- requests
\* The routes of the application.
Routes == {"POST /print", "GET /printers", "GET /"}
\* The CORS preflight requests to their paths.
Preflights == {"OPTIONS /print", "OPTIONS /printers", "OPTIONS /"}
\* What bodyParser.json({limit: "10mb"}) makes of the body of a request: it
\* parses it into req.body, or fails on JSON it cannot parse, or on a body
\* over the limit.
BodyStates == {"parsed", "malformed", "too large"}

\* What the middleware and the handlers read of a request: its method and
\* path, the state of its body, the x-api-key header, the api_key query
\* parameter and the fields of the parsed body.  This one is a POST /print
\* with no key and an empty body.
NoReq ==
  [route |-> "POST /print", body |-> "parsed", hdrKey |-> Undef, qryKey |-> Undef,
   mode |-> Undef, printerName |-> Undef, printerIp |-> Undef, fileUrl |-> Undef,
   fileBase64 |-> Undef, raw |-> Undef]

\* ModeOf without the default.
ModeOfNoDefault(r) == r.mode

\* const { mode = "os", ... } = req.body: the default replaces undefined only.
ModeOf(r) == IF r.mode = Undef THEN Str(<<"os">>) ELSE r.mode

\* The middleware letting through every request that brings a key.
AuthorizedAnyKey(r) == Truthy(OrElse(r.hdrKey, r.qryKey))

\* The middleware lets the request through.
Authorized(r) ==
  LET key == OrElse(r.hdrKey, r.qryKey)
  IN Truthy(key) /\ key = Str(API_KEY)

\* ------------------------------------------------------------ responses
NoRes == [status |-> 0, success |-> FALSE, mode |-> "", text |-> ""]
Success(m, msg) == [status |-> HTTP_OK, success |-> TRUE, mode |-> m, text |-> msg]
Failure(st, err) == [status |-> st, success |-> FALSE, mode |-> "", text |-> err]
\* cors() ends a preflight itself: status 204, no body.
Preflight == [status |-> HTTP_NO_CONTENT, success |-> FALSE, mode |-> "", text |-> ""]
\* The error of bodyParser.json, answered by the error handler of Express.
ParserError(b) ==
  [status |-> IF b = "too large" THEN HTTP_TOO_LARGE ELSE HTTP_BAD_REQUEST,
   success |-> FALSE, mode |-> "",
   text |-> IF b = "too large" THEN "request entity too large" ELSE "Unexpected token"]
\* res.json({success: true, printers})
Printers == [status |-> HTTP_OK, success |-> TRUE, mode |-> "", text |-> "printers"]
\* res.json({success: true, message: "Print service running"})
Health ==
  [status |-> HTTP_OK, success |-> TRUE, mode |-> "", text |-> "Print service running"]

\* --------------------------------------------------------------- state
NoPath == 0 - 1
NoFile == [exists |-> FALSE, data |-> <<>>]
File(bytes) == [exists |-> TRUE, data |-> bytes]
NoDest == [host |-> Undef, port |-> 0]

Slots == 1..NumSlots
\* print-${Date.now()}.pdf: a path is named by the clock value in it.
Paths == 0..MaxClock

VARIABLES
  task,     \* per request: the handler's locals, its position and its effects
  fs,       \* the files of the tmp directory, by path
  now,      \* Date.now()
  crashed   \* the process died of an uncaught exception

vars == << task, fs, now, crashed >>

\* A slot no request has arrived in.
Idle ==
  [req |-> NoReq,          \* the request
   pc |-> "idle",          \* idle, printers, fetch, body, spool, tcp, ipp, done
   res |-> NoRes,          \* the response sent
   fetched |-> "",         \* how the fetch ended: ok, notok, neterr, bodyerr
   buffer |-> <<>>,        \* buffer / fileBuffer
   filePath |-> NoPath,    \* filePath
   options |-> Undef,      \* options.printer handed to pdfPrinter.print
   wrote |-> "",           \* how mkdirSync and writeFileSync ended: ok, mkdir, open, write
   printed |-> "",         \* how pdfPrinter.print settled: resolved, rejected
   spoolRead |-> FALSE,    \* the spooler has read the file at filePath
   spooled |-> <<>>,       \* the bytes the spooler read from filePath
   dest |-> NoDest,        \* host and port of the socket or IPP printer
   client |-> "none",      \* the socket: none, connecting, open, errored, closed
   promise |-> "none",     \* the awaited promise: none, pending, fulfilled, rejected
   sent |-> <<>>,          \* the bytes written to the socket
   ippStatus |-> "",       \* status of the IPP response
   log |-> <<>>]           \* the calls made and events received, in order

Init ==
  /\ task = [j \in Slots |-> Idle]
  /\ fs = [p \in Paths |-> NoFile]
  /\ now = 0
  /\ crashed = FALSE

\* ------------------------------------------------------ handler fragments
\* return res.status(st).json(...) / return res.json(...)
Reply(t, r) == [t EXCEPT !.pc = "done", !.res = r, !.log = @ \o <<"res.json">>]

\* A response ended by cors() or by the error handler of Express, outside the
\* middleware and the handlers of this file.
Ended(t, r) == [t EXCEPT !.pc = "done", !.res = r, !.log = @ \o <<"res.end">>]

\* catch (err) { return res.status(500).json({success: false, error: err.message}) }
Caught(t, msg) == Reply(t, Failure(HTTP_SERVER_ERROR, msg))

\* A step that touches neither the file system nor the process.
Finish(j, t) ==
  /\ task' = [task EXCEPT ![j] = t]
  /\ UNCHANGED << fs, now, crashed >>

\* What fs.mkdirSync and fs.writeFileSync can do.  threw names the call that
\* throws: none (""); mkdirSync ("mkdir"), and writeFileSync is not called;
\* writeFileSync before it has opened the file ("open"), and the path is as it
\* was; writeFileSync after it has created or truncated the file and written
\* the first kept bytes ("write").
WriteOutcomes ==
  {[threw |-> c, kept |-> 0] : c \in {"", "mkdir", "open"}}
  \cup {[threw |-> "write", kept |-> k] : k \in 0..MaxKept}

\* err.message of the call that threw.
WriteError(c) ==
  CASE c = "mkdir" -> "EEXIST: file already exists, mkdir"
    [] c = "open" -> "EACCES: permission denied, open"
    [] OTHER -> "ENOSPC: no space left on device, write"

\* filePath = .../print-${Date.now()}.pdf; mkdirSync; writeFileSync;
\* options; pdfPrinter.print(filePath, options)
OsDeliver(j, t, bytes, w) ==
  LET t1 == [t EXCEPT !.buffer = bytes, !.filePath = now,
                      !.wrote = IF w.threw = "" THEN "ok" ELSE w.threw,
                      !.log = @ \o (IF w.threw = "mkdir" THEN <<"fs.mkdir">>
                                    ELSE <<"fs.mkdir", "fs.writeFile">>)]
  IN \* a write that throws has not written all of the bytes
     /\ w.threw = "write" => w.kept < Len(bytes)
     /\ fs' = [fs EXCEPT ![now] =
                 CASE w.threw = "" -> File(bytes)
                   [] w.threw = "write" -> File(SubSeq(bytes, 1, w.kept))
                   [] OTHER -> @]
     /\ task' = [task EXCEPT ![j] =
                 IF w.threw = ""
                 THEN [t1 EXCEPT !.pc = "spool",
                                 !.options = IF Truthy(t.req.printerName)
                                             THEN t.req.printerName ELSE Undef,
                                 !.log = @ \o <<"print">>]
                 ELSE Caught(t1, WriteError(w.threw))]
     /\ UNCHANGED << now, crashed >>

\* ModeOs taking fileUrl before fileBase64.
ModeOsUrlFirst(j, t, w) ==
  LET r == t.req
  IN IF ~Truthy(r.fileUrl) /\ ~Truthy(r.fileBase64)
     THEN Finish(j, Reply(t, Failure(HTTP_BAD_REQUEST,
                                     "fileUrl or fileBase64 required for mode=os")))
     ELSE IF Truthy(r.fileUrl)
     THEN Finish(j, [t EXCEPT !.pc = "fetch", !.log = @ \o <<"fetch">>])
     ELSE IF ~IsString(r.fileBase64)
          THEN Finish(j, Caught(t, "fileBase64.match is not a function"))
          ELSE IF ~FileMatches(r.fileBase64.v)
          THEN Finish(j, Reply(t, Failure(HTTP_BAD_REQUEST, "Invalid fileBase64 payload")))
          ELSE OsDeliver(j, t, BufferFromBase64(FileMatchGroup(r.fileBase64.v)), w)

\* mode === "os", up to the first await
ModeOs(j, t, w) ==
  LET r == t.req
  IN IF ~Truthy(r.fileUrl) /\ ~Truthy(r.fileBase64)
     THEN Finish(j, Reply(t, Failure(HTTP_BAD_REQUEST,
                                     "fileUrl or fileBase64 required for mode=os")))
     ELSE IF Truthy(r.fileBase64)
     THEN IF ~IsString(r.fileBase64)
          THEN Finish(j, Caught(t, "fileBase64.match is not a function"))
          ELSE IF ~FileMatches(r.fileBase64.v)
          THEN Finish(j, Reply(t, Failure(HTTP_BAD_REQUEST, "Invalid fileBase64 payload")))
          ELSE OsDeliver(j, t, BufferFromBase64(FileMatchGroup(r.fileBase64.v)), w)
     ELSE Finish(j, [t EXCEPT !.pc = "fetch", !.log = @ \o <<"fetch">>])

\* ModeTcp without the check of raw.
ModeTcpNoRawCheck(j, t) ==
  LET r == t.req
  IN IF ~Truthy(r.printerIp)
     THEN Finish(j, Reply(t, Failure(HTTP_BAD_REQUEST, "printerIp required for mode=tcp")))
     ELSE Finish(j, [t EXCEPT !.pc = "tcp", !.client = "connecting",
                              !.promise = "pending",
                              !.dest = [host |-> r.printerIp, port |-> RAW_PORT],
                              !.log = @ \o <<"net.connect">>])

\* mode === "tcp", up to the await: the socket is created and connect is called
ModeTcp(j, t) ==
  LET r == t.req
  IN IF ~Truthy(r.printerIp)
     THEN Finish(j, Reply(t, Failure(HTTP_BAD_REQUEST, "printerIp required for mode=tcp")))
     ELSE IF ~Truthy(r.raw)
     THEN Finish(j, Reply(t, Failure(HTTP_BAD_REQUEST, "raw data required for tcp mode")))
     ELSE Finish(j, [t EXCEPT !.pc = "tcp", !.client = "connecting",
                              !.promise = "pending",
                              !.dest = [host |-> r.printerIp, port |-> RAW_PORT],
                              !.log = @ \o <<"net.connect">>])

\* printer.execute("Print-Job", msg, callback) on http://${printerIp}:631/ipp/print
IppExecute(t, bytes) ==
  [t EXCEPT !.buffer = bytes, !.pc = "ipp", !.promise = "pending",
            !.dest = [host |-> t.req.printerIp, port |-> IPP_PORT],
            !.log = @ \o <<"ipp.execute">>]

\* mode === "ipp", up to the first await
ModeIpp(j, t) ==
  LET r == t.req
  IN IF ~Truthy(r.printerIp)
     THEN Finish(j, Reply(t, Failure(HTTP_BAD_REQUEST, "printerIp required for mode=ipp")))
     ELSE IF ~Truthy(r.fileUrl) /\ ~Truthy(r.fileBase64)
     THEN Finish(j, Reply(t, Failure(HTTP_BAD_REQUEST,
                                     "fileUrl or fileBase64 required for ipp")))
     ELSE IF Truthy(r.fileBase64)
     THEN IF ~IsString(r.fileBase64)
          THEN Finish(j, Caught(t, "fileBase64.match is not a function"))
          ELSE IF ~FileMatches(r.fileBase64.v)
          THEN Finish(j, Reply(t, Failure(HTTP_BAD_REQUEST, "Invalid fileBase64")))
          ELSE Finish(j, IppExecute(t, BufferFromBase64(FileMatchGroup(r.fileBase64.v))))
     ELSE Finish(j, [t EXCEPT !.pc = "fetch", !.log = @ \o <<"fetch">>])

\* PostPrint taking every unknown mode for "os".
PostPrintDefaultOs(j, t, w) ==
  LET mode == ModeOf(t.req)
  IN IF mode = Str(<<"tcp">>) THEN ModeTcp(j, t)
     ELSE IF mode = Str(<<"ipp">>) THEN ModeIpp(j, t)
     ELSE ModeOs(j, t, w)

\* The handler of POST /print, from its entry to its first await or response.
PostPrint(j, t, w) ==
  LET mode == ModeOf(t.req)
  IN IF mode = Str(<<"os">>) THEN ModeOs(j, t, w)
     ELSE IF mode = Str(<<"tcp">>) THEN ModeTcp(j, t)
     ELSE IF mode = Str(<<"ipp">>) THEN ModeIpp(j, t)
     ELSE Finish(j, Reply(t, Failure(HTTP_BAD_REQUEST, "Unsupported mode")))

\* ---------------------------------------------------------------- actions
\* A request arrives and goes through the middleware in the order of their
\* registration: cors(), which answers a preflight itself; bodyParser.json,
\* whose error skips what follows; the API-key middleware; then the handler
\* of the route.
Receive(j, r, w) ==
  /\ ~crashed
  /\ task[j].pc = "idle"
  /\ LET t == [task[j] EXCEPT !.req = r]
     IN IF r.route \in Preflights
        THEN Finish(j, Ended(t, Preflight))
        ELSE IF r.body # "parsed"
        THEN Finish(j, Ended(t, ParserError(r.body)))
        ELSE IF ~Authorized(r)
        THEN Finish(j, Reply(t, Failure(HTTP_UNAUTHORIZED, "Unauthorized")))
        ELSE CASE r.route = "GET /printers" ->
                    Finish(j, [t EXCEPT !.pc = "printers", !.log = @ \o <<"getPrinters">>])
               [] r.route = "GET /" -> Finish(j, Reply(t, Health))
               [] OTHER -> PostPrint(j, t, w)

\* await pdfPrinter.getPrinters() settles.
GetPrintersReturn(j, ok) ==
  /\ ~crashed
  /\ task[j].pc = "printers"
  /\ LET t == [task[j] EXCEPT !.log = @ \o <<"getPrinters.return">>]
     IN IF ok THEN Finish(j, Reply(t, Printers))
        ELSE Finish(j, Caught(t, "getPrinters failed"))

\* FetchResponse without the test of resp.ok.
FetchResponseIgnoresStatus(j, o) ==
  /\ ~crashed
  /\ task[j].pc = "fetch"
  /\ LET t == [task[j] EXCEPT !.fetched = o, !.log = @ \o <<"fetch.response">>]
     IN IF o \in {"ok", "notok"} THEN Finish(j, [t EXCEPT !.pc = "body"])
        ELSE Finish(j, Caught(t, "request to fileUrl failed"))

\* await fetch(fileUrl) settles: a response (ok or not) or a network error.
FetchResponse(j, o) ==
  /\ ~crashed
  /\ task[j].pc = "fetch"
  /\ LET t == [task[j] EXCEPT !.fetched = o, !.log = @ \o <<"fetch.response">>]
         os == ModeOf(t.req) = Str(<<"os">>)
     IN CASE o = "ok" -> Finish(j, [t EXCEPT !.pc = "body"])
          [] o = "notok" ->
               Finish(j, Caught(t, IF os THEN "Failed to fetch file: Not Found"
                                         ELSE "Failed to fetch fileUrl"))
          [] OTHER -> Finish(j, Caught(t, "request to fileUrl failed"))

\* await resp.buffer() settles, and the handler runs on to its next await.
FetchBody(j, ok, body, w) ==
  /\ ~crashed
  /\ task[j].pc = "body"
  /\ LET t == [task[j] EXCEPT !.fetched = IF ok THEN "ok" ELSE "bodyerr",
                               !.log = @ \o <<"fetch.body">>]
     IN IF ~ok THEN Finish(j, Caught(t, "Premature close"))
        ELSE IF ModeOf(t.req) = Str(<<"os">>) THEN OsDeliver(j, t, body, w)
        ELSE Finish(j, IppExecute(t, body))

\* The spooler started by pdfPrinter.print reads the file that is at filePath,
\* at some point between the call and its return, if it reads it by then.
SpoolRead(j) ==
  /\ ~crashed
  /\ task[j].pc = "spool"
  /\ ~task[j].spoolRead
  /\ fs[task[j].filePath].exists
  /\ Finish(j, [task[j] EXCEPT !.spoolRead = TRUE,
                               !.spooled = fs[task[j].filePath].data])

\* SpoolReturn going on to the unlink and the success after a rejected print.
SpoolReturnIgnoresRejection(j, ok, unlinked) ==
  /\ ~crashed
  /\ task[j].pc = "spool"
  /\ LET t == [task[j] EXCEPT !.printed = IF ok THEN "resolved" ELSE "rejected",
                               !.log = @ \o <<"print.return">>]
         p == t.filePath
     IN /\ fs' = [fs EXCEPT ![p] = IF unlinked THEN NoFile ELSE @]
        /\ task' = [task EXCEPT ![j] =
                      Reply([t EXCEPT !.log = @ \o <<"fs.unlink">>],
                            Success("os", "Sent to OS print spooler"))]
        /\ UNCHANGED << now, crashed >>

\* SpoolReturn letting a failed unlinkSync reach the catch.
SpoolReturnUnlinkThrows(j, ok, unlinked) ==
  /\ ~crashed
  /\ task[j].pc = "spool"
  /\ LET t == [task[j] EXCEPT !.printed = IF ok THEN "resolved" ELSE "rejected",
                               !.log = @ \o <<"print.return">>]
         p == t.filePath
     IN IF ok
        THEN IF unlinked
             THEN /\ fs' = [fs EXCEPT ![p] = NoFile]
                  /\ task' = [task EXCEPT ![j] =
                                Reply([t EXCEPT !.log = @ \o <<"fs.unlink">>],
                                      Success("os", "Sent to OS print spooler"))]
                  /\ UNCHANGED << now, crashed >>
             ELSE Finish(j, Caught([t EXCEPT !.log = @ \o <<"fs.unlink">>],
                                   "EPERM: operation not permitted, unlink"))
        ELSE Finish(j, Caught(t, "print failed"))

\* await pdfPrinter.print(filePath, options) settles.  When it resolves the
\* handler tries fs.unlinkSync(filePath), ignores its failure, and answers;
\* when it rejects the catch answers.
SpoolReturn(j, ok, unlinked) ==
  /\ ~crashed
  /\ task[j].pc = "spool"
  /\ LET t == [task[j] EXCEPT !.printed = IF ok THEN "resolved" ELSE "rejected",
                               !.log = @ \o <<"print.return">>]
         p == t.filePath
     IN IF ok
        THEN /\ fs' = [fs EXCEPT ![p] = IF unlinked THEN NoFile ELSE @]
             /\ task' = [task EXCEPT ![j] =
                           Reply([t EXCEPT !.log = @ \o <<"fs.unlink">>],
                                 Success("os", "Sent to OS print spooler"))]
             /\ UNCHANGED << now, crashed >>
        ELSE Finish(j, Caught(t, "print failed"))

\* TcpConnect resolving the promise in the connect callback.
TcpConnectResolves(j) ==
  /\ ~crashed
  /\ task[j].client = "connecting"
  /\ IsString(task[j].req.raw)
  /\ LET t == [task[j] EXCEPT !.client = "open", !.promise = "fulfilled",
                               !.log = @ \o <<"on.connect">>]
         raw == t.req.raw
     IN Finish(j, Reply([t EXCEPT !.sent = IF RawMatches(raw.v)
                                           THEN BufferFromBase64(RawMatchGroup(raw.v))
                                           ELSE Utf8(raw.v),
                                  !.log = @ \o <<"socket.write", "socket.end">>],
                        Success("tcp", "Raw TCP sent to printer")))

\* The connect callback: match, write, end.  raw.match is no function when raw
\* is not a string: the callback throws in the event loop, outside the promise
\* and the try block, and the process dies of the uncaught exception.
TcpConnect(j) ==
  /\ ~crashed
  /\ task[j].client = "connecting"
  /\ LET t == [task[j] EXCEPT !.client = "open", !.log = @ \o <<"on.connect">>]
         raw == t.req.raw
     IN IF ~IsString(raw)
        THEN /\ task' = [task EXCEPT ![j] = t]
             /\ crashed' = TRUE
             /\ UNCHANGED << fs, now >>
        ELSE Finish(j, [t EXCEPT !.sent = IF RawMatches(raw.v)
                                          THEN BufferFromBase64(RawMatchGroup(raw.v))
                                          ELSE Utf8(raw.v),
                                 !.log = @ \o <<"socket.write", "socket.end">>])

\* TcpError leaving the promise pending.
TcpErrorIgnored(j) ==
  /\ ~crashed
  /\ task[j].client \in {"connecting", "open"}
  /\ Finish(j, [task[j] EXCEPT !.client = "errored", !.log = @ \o <<"on.error">>])

\* client.on("error", err => reject(err)): the await throws into the catch.
TcpError(j) ==
  /\ ~crashed
  /\ task[j].client \in {"connecting", "open"}
  /\ LET t == [task[j] EXCEPT !.client = "errored", !.log = @ \o <<"on.error">>]
     IN IF t.promise = "pending"
        THEN Finish(j, Caught([t EXCEPT !.promise = "rejected"], "connect ECONNREFUSED"))
        ELSE Finish(j, t)

\* TcpClose answering success whatever became of the promise.
TcpCloseAlwaysResolves(j) ==
  /\ ~crashed
  /\ task[j].client \in {"open", "errored"}
  /\ LET t == [task[j] EXCEPT !.client = "closed", !.log = @ \o <<"on.close">>]
     IN Finish(j, Reply([t EXCEPT !.promise = "fulfilled"],
                        Success("tcp", "Raw TCP sent to printer")))

\* client.on("close", () => resolve()): a settled promise stays as it is.
TcpClose(j) ==
  /\ ~crashed
  /\ task[j].client \in {"open", "errored"}
  /\ LET t == [task[j] EXCEPT !.client = "closed", !.log = @ \o <<"on.close">>]
     IN IF t.promise = "pending"
        THEN Finish(j, Reply([t EXCEPT !.promise = "fulfilled"],
                             Success("tcp", "Raw TCP sent to printer")))
        ELSE Finish(j, t)

IppStatuses == {"successful-ok", "client-error-document-format-not-supported"}

\* IppCallback executing the Print-Job a second time after a first error.
IppCallbackRetries(j, err, status) ==
  /\ ~crashed
  /\ task[j].pc = "ipp"
  /\ LET t == [task[j] EXCEPT !.log = @ \o <<"ipp.callback">>]
     IN IF err
        THEN IF Len(SelectSeq(t.log, LAMBDA e : e = "ipp.execute")) < 2
             THEN Finish(j, [t EXCEPT !.log = @ \o <<"ipp.execute">>])
             ELSE Finish(j, Caught([t EXCEPT !.promise = "rejected"], "socket hang up"))
        ELSE Finish(j, Reply([t EXCEPT !.promise = "fulfilled", !.ippStatus = status],
                             Success("ipp", "IPP job sent")))

\* IppCallback failing the job on a response whose status is not successful-ok.
IppCallbackChecksStatus(j, err, status) ==
  /\ ~crashed
  /\ task[j].pc = "ipp"
  /\ LET t == [task[j] EXCEPT !.log = @ \o <<"ipp.callback">>]
     IN IF err \/ status # "successful-ok"
        THEN Finish(j, Caught([t EXCEPT !.promise = "rejected", !.ippStatus = status],
                              "socket hang up"))
        ELSE Finish(j, Reply([t EXCEPT !.promise = "fulfilled", !.ippStatus = status],
                             Success("ipp", "IPP job sent")))

\* The callback of printer.execute: (err, result).
IppCallback(j, err, status) ==
  /\ ~crashed
  /\ task[j].pc = "ipp"
  /\ LET t == [task[j] EXCEPT !.log = @ \o <<"ipp.callback">>]
     IN IF err
        THEN Finish(j, Caught([t EXCEPT !.promise = "rejected"], "socket hang up"))
        ELSE Finish(j, Reply([t EXCEPT !.promise = "fulfilled", !.ippStatus = status],
                             Success("ipp", "IPP job sent")))

\* The millisecond clock advances.
Tick ==
  /\ ~crashed
  /\ now < MaxClock
  /\ now' = now + 1
  /\ UNCHANGED << task, fs, crashed >>

\* ------------------------------------------------------------- inputs
OS == Str(<<"os">>)
TCP == Str(<<"tcp">>)
IPP == Str(<<"ipp">>)
GoodKey == Str(API_KEY)
BadKey == Str(<<"0000">>)
Url == Str(<<"http://files.example/x.pdf">>)
Ip == Str(<<"10.0.0.5">>)
\* application/pdf;base64,JVBERi0x
InlinePdf ==
  Str(<<"application/pdf", ";", "base64,", "J", "V", "B", "E", "R", "i", "0", "x">>)
\* data:application/pdf;base64,QQ==
DataUrl == Str(<<"data:", "application/pdf", ";", "base64,", "Q", "Q", "=", "=">>)
Literal == Str(<<"T", "E", "S", "T">>)

\* The bodies a fetch can deliver.
FetchBodies == {<<37, 80, 68, 70>>}
FetchOutcomes == {"ok", "notok", "neterr"}

\* Every combination of these field values.
FieldJobs ==
  [route : {"POST /print"},
   body : {"parsed"},
   hdrKey : {Undef, GoodKey, BadKey},
   qryKey : {Undef, GoodKey},
   mode : {Undef, Null, Num, OS, TCP, IPP, Str(<<"lpr">>)},
   printerName : {Undef, Str(<<"HP">>)},
   printerIp : {Undef, Str(<<>>), Ip},
   fileUrl : {Undef, Url},
   fileBase64 : {Undef, Num, InlinePdf, Str(<<"J", "V">>)},
   raw : {Undef, Num, Literal, DataUrl}]

\* Payload strings: a prefix followed by every data part of up to MaxLen
\* characters.
DataChars == {"Q", "=", "!"}
DataStrings == UNION {[1..n -> DataChars] : n \in 0..MaxLen}
Prefixes ==
  { <<>>,
    <<"base64,">>,
    <<"application/pdf", ";", "base64,">>,
    <<"data:", "application/pdf", ";", "base64,">>,
    <<"data:", ";", "base64,", "Q", "Q", ";", "base64,">>,
    <<"data:", LineFeed, ";", "base64,">> }
\* Strings with a line terminator after the "base64," delimiter.
TerminatedStrings ==
  UNION {{<<"base64,", "Q", "Q", c>>, <<"base64,", c, "Q", "Q">>,
          <<"data:", ";", "base64,", "Q", "Q", c>>,
          <<"data:", c, ";", "base64,", "Q", "Q">>} : c \in LineTerminators}
PayloadStrings == {p \o d : p \in Prefixes, d \in DataStrings} \cup TerminatedStrings

\* Authorized jobs of each mode carrying each payload string.
PayloadJobs ==
  {[NoReq EXCEPT !.hdrKey = GoodKey, !.mode = m, !.printerIp = Ip,
                 !.fileBase64 = Str(s)] : m \in {OS, IPP}, s \in PayloadStrings}
  \cup
  {[NoReq EXCEPT !.hdrKey = GoodKey, !.mode = TCP, !.printerIp = Ip,
                 !.raw = Str(s)] : s \in PayloadStrings}

\* Every route and preflight with every state of the body and every pair of
\* keys, carrying a complete job description.
Keys == {Undef, Str(<<>>), GoodKey, BadKey}
KeyJobs ==
  {[b EXCEPT !.route = rt, !.body = bs, !.hdrKey = h, !.qryKey = q] :
     rt \in Routes \cup Preflights, bs \in BodyStates, h \in Keys, q \in Keys,
     b \in {[NoReq EXCEPT !.fileBase64 = InlinePdf],
            [NoReq EXCEPT !.mode = TCP, !.printerIp = Ip, !.raw = Literal]}}

AllJobs == FieldJobs \cup PayloadJobs \cup KeyJobs

\* The jobs of the concurrent specification: one per path through the handler.
CoreJobs ==
  { [NoReq EXCEPT !.hdrKey = GoodKey, !.fileBase64 = InlinePdf],
    [NoReq EXCEPT !.hdrKey = GoodKey, !.mode = OS, !.fileUrl = Url,
                  !.printerName = Str(<<"HP">>)],
    [NoReq EXCEPT !.hdrKey = GoodKey, !.mode = TCP, !.printerIp = Ip, !.raw = Literal],
    [NoReq EXCEPT !.hdrKey = GoodKey, !.mode = TCP, !.printerIp = Ip, !.raw = Num],
    [NoReq EXCEPT !.hdrKey = GoodKey, !.mode = IPP, !.printerIp = Ip,
                  !.fileBase64 = DataUrl],
    [NoReq EXCEPT !.qryKey = GoodKey, !.mode = IPP, !.printerIp = Ip, !.fileUrl = Url],
    [NoReq EXCEPT !.hdrKey = GoodKey, !.mode = TCP, !.printerIp = Ip],
    [NoReq EXCEPT !.hdrKey = GoodKey, !.mode = Str(<<"lpr">>)],
    [NoReq EXCEPT !.hdrKey = BadKey, !.fileBase64 = InlinePdf] }

\* -------------------------------------------------------- specifications
\* Concurrent requests to POST /print, each one of CoreJobs.
Next ==
  \/ \E j \in Slots :
       task[j].pc = "idle" /\ \E r \in CoreJobs, w \in WriteOutcomes : Receive(j, r, w)
  \/ \E j \in Slots, o \in FetchOutcomes : FetchResponse(j, o)
  \/ \E j \in Slots, ok \in BOOLEAN, body \in FetchBodies, w \in WriteOutcomes :
       FetchBody(j, ok, body, w)
  \/ \E j \in Slots : SpoolRead(j)
  \/ \E j \in Slots, ok \in BOOLEAN, unlinked \in BOOLEAN : SpoolReturn(j, ok, unlinked)
  \/ \E j \in Slots : TcpConnect(j)
  \/ \E j \in Slots : TcpError(j)
  \/ \E j \in Slots : TcpClose(j)
  \/ \E j \in Slots, err \in BOOLEAN, st \in IppStatuses : IppCallback(j, err, st)
  \/ Tick

Spec == Init /\ [][Next]_vars

\* One request, of every route and job description of AllJobs.
NextJob ==
  \/ task[1].pc = "idle" /\ \E r \in AllJobs, w \in WriteOutcomes : Receive(1, r, w)
  \/ \E o \in FetchOutcomes : FetchResponse(1, o)
  \/ \E ok \in BOOLEAN, body \in FetchBodies, w \in WriteOutcomes :
       FetchBody(1, ok, body, w)
  \/ SpoolRead(1)
  \/ \E ok \in BOOLEAN, unlinked \in BOOLEAN : SpoolReturn(1, ok, unlinked)
  \/ TcpConnect(1)
  \/ TcpError(1)
  \/ TcpClose(1)
  \/ \E err \in BOOLEAN, st \in IppStatuses : IppCallback(1, err, st)
  \/ \E ok \in BOOLEAN : GetPrintersReturn(1, ok)
  \/ Tick

SpecJob == Init /\ [][NextJob]_vars

\* Authorized jobs without a mode field.
TwinJobs ==
  {[NoReq EXCEPT !.hdrKey = GoodKey, !.printerName = n, !.printerIp = ip,
                 !.fileUrl = u, !.fileBase64 = b] :
     n \in {Undef, Str(<<"HP">>)}, ip \in {Undef, Ip}, u \in {Undef, Url},
     b \in {Undef, Num, InlinePdf, Str(<<"J", "V">>)}}

\* Two requests: a job without a mode in slot 1, the same job with mode "os"
\* in slot 2.
NextTwin ==
  \/ task[1].pc = "idle" /\ \E r \in TwinJobs, w \in WriteOutcomes : Receive(1, r, w)
  \/ /\ task[1].pc # "idle"
     /\ task[2].pc = "idle"
     /\ \E w \in WriteOutcomes : Receive(2, [task[1].req EXCEPT !.mode = OS], w)
  \/ \E j \in {1, 2}, o \in FetchOutcomes : FetchResponse(j, o)
  \/ \E j \in {1, 2}, ok \in BOOLEAN, body \in FetchBodies, w \in WriteOutcomes :
       FetchBody(j, ok, body, w)
  \/ \E j \in {1, 2} : SpoolRead(j)
  \/ \E j \in {1, 2}, ok \in BOOLEAN, unlinked \in BOOLEAN : SpoolReturn(j, ok, unlinked)
  \/ Tick

SpecTwin == Init /\ [][NextTwin]_vars


\* ---------------------------------------------------------------- claims
Known == {OS, TCP, IPP}
\* The request of slot j reached the handler of POST /print.
Dispatched(j) ==
  /\ task[j].pc # "idle"
  /\ task[j].req.route = "POST /print"
  /\ task[j].req.body = "parsed"
  /\ Authorized(task[j].req)
Occurs(e, l) == \E i \in 1..Len(l) : l[i] = e
Count(e, l) == Cardinality({i \in 1..Len(l) : l[i] = e})
\* Event a comes before event b in the log l.
Before(a, b, l) == \E i, k \in 1..Len(l) : i < k /\ l[i] = a /\ l[k] = b
NoFileAnywhere == \A p \in Paths : ~fs[p].exists
\* Answered with a failure before any call to the network, the file system,
\* the spooler or a printer.
RejectedBeforeIO(j) ==
  /\ task[j].pc = "done"
  /\ ~task[j].res.success
  /\ task[j].log = <<"res.json">>
  /\ task[j].filePath = NoPath
  /\ task[j].client = "none"

\* A field the mode requires is missing (absent, null or empty).
MissingRequired(r) ==
  LET noSource == ~Truthy(r.fileUrl) /\ ~Truthy(r.fileBase64)
  IN \/ ModeOf(r) = OS /\ noSource
     \/ ModeOf(r) = TCP /\ (~Truthy(r.printerIp) \/ ~Truthy(r.raw))
     \/ ModeOf(r) = IPP /\ (~Truthy(r.printerIp) \/ noSource)

MissingFieldMessages ==
  {"fileUrl or fileBase64 required for mode=os", "printerIp required for mode=tcp",
   "raw data required for tcp mode", "printerIp required for mode=ipp",
   "fileUrl or fileBase64 required for ipp"}

\* C1: a dispatched job in which a mode-required field is missing is answered
\* with a missing-field failure (status 400), and nothing was fetched, written,
\* connected, spooled or sent for it.
C1_MissingFieldNoIO ==
  \A j \in Slots :
    Dispatched(j) /\ MissingRequired(task[j].req) =>
      /\ RejectedBeforeIO(j)
      /\ task[j].res.status = HTTP_BAD_REQUEST
      /\ task[j].res.text \in MissingFieldMessages
      /\ NoFileAnywhere

\* {mode: "tcp", printerIp: "10.0.0.5"} without raw has been answered.
C1_Witness ==
  /\ task[1].pc = "done"
  /\ Authorized(task[1].req)
  /\ task[1].req.mode = TCP
  /\ task[1].req.printerIp = Ip
  /\ task[1].req.raw = Undef
  /\ task[1].res.text = "raw data required for tcp mode"

\* C2: a dispatched job whose mode is none of os, tcp, ipp is answered with
\* "Unsupported mode" whatever its other fields, and no resolver step and no
\* driver was invoked for it.
C2_UnsupportedModeNoDriver ==
  \A j \in Slots :
    Dispatched(j) /\ ModeOf(task[j].req) \notin Known =>
      /\ RejectedBeforeIO(j)
      /\ task[j].res = Failure(HTTP_BAD_REQUEST, "Unsupported mode")
      /\ NoFileAnywhere

\* A job of mode "lpr" that also lacks every other field has been answered.
C2_Witness ==
  /\ task[1].pc = "done"
  /\ Authorized(task[1].req)
  /\ task[1].req.mode = Str(<<"lpr">>)
  /\ ~Truthy(task[1].req.fileUrl) /\ ~Truthy(task[1].req.fileBase64)
  /\ ~Truthy(task[1].req.printerIp) /\ ~Truthy(task[1].req.raw)
  /\ task[1].res.text = "Unsupported mode"

\* C3: after an OS-mode dispatch has answered, the temporary file it created
\* no longer exists.
C3_TempFileRemoved ==
  \A j \in Slots :
    (/\ Dispatched(j)
     /\ ModeOf(task[j].req) = OS
     /\ task[j].pc = "done"
     /\ task[j].filePath # NoPath)
    => ~fs[task[j].filePath].exists

\* A step of delivery or resolution failed for the job of slot j.
FailureRaised(j) ==
  \/ task[j].fetched \in {"notok", "neterr", "bodyerr"}
  \/ task[j].wrote \in {"mkdir", "open", "write"}
  \/ task[j].printed = "rejected"
  \/ Occurs("on.error", task[j].log)
  \/ task[j].promise = "rejected"

\* C4: every failure raised while resolving or delivering is turned into a
\* response with success:false, and none escapes the handler: the process
\* stays up for the jobs that follow.
C4_NoFailureEscapes ==
  /\ ~crashed
  /\ \A j \in Slots : FailureRaised(j) => task[j].pc = "done" /\ ~task[j].res.success

\* C5: two OS-mode jobs in flight never use the same temp-file path, and the
\* spooler of each job reads exactly the bytes that job resolved.
C5_DistinctTempFiles ==
  /\ \A i, j \in Slots :
       (i # j /\ task[i].pc = "spool" /\ task[j].pc = "spool")
       => task[i].filePath # task[j].filePath
  /\ \A j \in Slots : task[j].spoolRead => task[j].spooled = task[j].buffer

\* An OS or IPP job with a fileUrl and a fileBase64.
TwoSources(j) ==
  /\ Dispatched(j)
  /\ ModeOf(task[j].req) \in {OS, IPP}
  /\ Truthy(task[j].req.fileUrl)
  /\ Truthy(task[j].req.fileBase64)

\* C6 as stated: an OS or IPP job carrying both fileUrl and fileBase64 is
\* rejected before any I/O.
C6_TwoSourcesRejected == \A j \in Slots : TwoSources(j) => RejectedBeforeIO(j)

\* C6 as amended: an OS or IPP job carrying both fileUrl and fileBase64 is not
\* rejected for that; fileBase64 is its only source: no fetch is ever made, a
\* matching fileBase64 goes on to the temp file or to the Print-Job, and the
\* bytes delivered are those decoded from fileBase64.
C6_InlineSourceWins ==
  \A j \in Slots :
    TwoSources(j) =>
      LET t == task[j]
          b64 == t.req.fileBase64
      IN /\ ~Occurs("fetch", t.log)
         /\ t.fetched = ""
         /\ (IsString(b64) /\ FileMatches(b64.v)
             /\ (ModeOf(t.req) = OS \/ Truthy(t.req.printerIp)))
            => /\ ~RejectedBeforeIO(j)
               /\ t.buffer = BufferFromBase64(FileMatchGroup(b64.v))
               /\ Occurs("fs.mkdir", t.log) \/ Occurs("ipp.execute", t.log)

\* An OS job with both sources is at the spooler with the inline bytes %PDF-1.
C6_Witness ==
  /\ TwoSources(1)
  /\ task[1].req.mode = OS
  /\ task[1].req.fileBase64 = InlinePdf
  /\ task[1].pc = "spool"
  /\ task[1].buffer = <<37, 80, 68, 70, 45, 49>>

\* C7: when the fetch of an OS or IPP job answers with a non-success status or
\* fails at network level, the job ends with a failure response after exactly
\* one fetch; no temp file is written and neither the spooler nor the IPP
\* printer is called.
C7_FetchFailureStops ==
  \A j \in Slots :
    task[j].fetched \in {"notok", "neterr", "bodyerr"} =>
      /\ task[j].pc = "done"
      /\ task[j].res.status = HTTP_SERVER_ERROR
      /\ ~task[j].res.success
      /\ Count("fetch", task[j].log) = 1
      /\ task[j].filePath = NoPath
      /\ ~Occurs("fs.writeFile", task[j].log)
      /\ ~Occurs("print", task[j].log)
      /\ ~Occurs("ipp.execute", task[j].log)
      /\ NoFileAnywhere

\* {mode: "ipp", printerIp, fileUrl} whose fetch was answered 404.
C7_Witness ==
  /\ task[1].req.mode = IPP
  /\ task[1].req.fileUrl = Url
  /\ task[1].fetched = "notok"
  /\ task[1].res = Failure(HTTP_SERVER_ERROR, "Failed to fetch fileUrl")

\* <mime>;base64,<data>: the place of the first ";base64," after a media type.
InlineAt(s) == {i \in 2..(Len(s) - 1) : s[i] = ";" /\ s[i + 1] = "base64,"}
InlinePattern(s) == InlineAt(s) # {}
InlineData(s) ==
  LET i == CHOOSE k \in InlineAt(s) : \A m \in InlineAt(s) : k <= m
  IN Chars(SubSeq(s, i + 2, Len(s)))

\* Base64 as RFC 4648 defines it: groups of four characters of the alphabet,
\* the last group padded with one or two "=".
StrictBase64(cs) ==
  LET n == Len(cs)
      InAlphabet(c) == \E i \in 1..64 : B64Alphabet[i] = c
  IN /\ n % 4 = 0
     /\ \A i \in 1..n : i <= n - 2 => InAlphabet(cs[i])
     /\ n > 0 =>
          \/ InAlphabet(cs[n - 1]) /\ InAlphabet(cs[n])
          \/ InAlphabet(cs[n - 1]) /\ cs[n] = "="
          \/ cs[n - 1] = "=" /\ cs[n] = "="

\* C8: an inline fileBase64 without the <mime>;base64,<data> pattern, or whose
\* data is not decodable base64, is rejected with a 400 before any I/O;
\* otherwise the bytes resolved are the decoding of the data, and encoding
\* them again gives the data.
C8_InlineDecodedOrRejected ==
  \A j \in Slots :
    LET t == task[j]
        b64 == t.req.fileBase64
    IN (/\ Dispatched(j)
        /\ ModeOf(t.req) \in {OS, IPP}
        /\ ModeOf(t.req) = IPP => Truthy(t.req.printerIp)
        /\ IsString(b64) /\ Truthy(b64))
       => IF InlinePattern(b64.v) /\ StrictBase64(InlineData(b64.v))
          THEN /\ ~RejectedBeforeIO(j)
               /\ Base64Encode(t.buffer) = InlineData(b64.v)
          ELSE /\ RejectedBeforeIO(j)
               /\ t.res.status = HTTP_BAD_REQUEST

\* C9 as stated: the bytes written to the socket are the decoding of the data
\* of a raw matching <mime>;base64,<data>, and raw itself otherwise.
C9_InlinePatternDecoded ==
  \A j \in Slots :
    LET t == task[j]
        raw == t.req.raw
    IN (/\ Dispatched(j)
        /\ ModeOf(t.req) = TCP
        /\ Occurs("on.connect", t.log)
        /\ IsString(raw))
       => /\ Occurs("socket.write", t.log)
          /\ t.sent = IF InlinePattern(raw.v)
                      THEN BufferFromBase64(InlineData(raw.v))
                      ELSE Utf8(raw.v)

\* data:<anything>;base64,<data> on one line; the data follows the last
\* ";base64,".
DataUrlAt(s) == {i \in 2..(Len(s) - 1) : s[i] = ";" /\ s[i + 1] = "base64,"}
IsDataUrl(s) ==
  /\ Len(s) > 0
  /\ s[1] = "data:"
  /\ \A i \in 1..Len(s) : s[i] \notin LineTerminators
  /\ DataUrlAt(s) # {}
DataUrlData(s) ==
  LET i == CHOOSE k \in DataUrlAt(s) : \A m \in DataUrlAt(s) : m <= k
  IN SubSeq(s, i + 2, Len(s))

\* C9 as amended: the bytes written to the socket are determined by raw alone.
\* A string raw of the form data:<anything>;base64,<data>, on one line, is
\* written as the lenient base64 decoding of <data>; every other string raw is
\* written as it is; a raw that is no string is not written at all.
C9_DataUrlDecoded ==
  \A j \in Slots :
    LET t == task[j]
        raw == t.req.raw
    IN (/\ Dispatched(j)
        /\ ModeOf(t.req) = TCP
        /\ Occurs("on.connect", t.log))
       => IF IsString(raw)
          THEN /\ Count("socket.write", t.log) = 1
               /\ t.sent = IF IsDataUrl(raw.v)
                           THEN BufferFromBase64(DataUrlData(raw.v))
                           ELSE Utf8(raw.v)
          ELSE /\ ~Occurs("socket.write", t.log)
               /\ t.sent = <<>>

\* data:application/pdf;base64,QQ== has been written to the socket as the one
\* byte 65.
C9_Witness ==
  /\ task[1].req.mode = TCP
  /\ task[1].req.raw = DataUrl
  /\ Occurs("socket.write", task[1].log)
  /\ task[1].sent = <<65>>

IsPrefix(a, b) == Len(a) <= Len(b) /\ a = SubSeq(b, 1, Len(a))
TcpDelivered ==
  <<"net.connect", "on.connect", "socket.write", "socket.end", "on.close", "res.json">>
TcpLogs ==
  { TcpDelivered,
    <<"net.connect", "on.error", "res.json", "on.close">>,
    <<"net.connect", "on.connect", "socket.write", "socket.end", "on.error",
      "res.json", "on.close">> }

\* C10: in a TCP dispatch the events come in the order connect, one write of
\* the payload, end, close, success response: nothing is written before the
\* connect event, success is answered only after the close event, and by then
\* the peer has been sent exactly the payload.
C10_TcpEventOrder ==
  \A j \in Slots :
    LET t == task[j]
    IN (Dispatched(j) /\ ModeOf(t.req) = TCP /\ ~MissingRequired(t.req)) =>
         /\ \E l \in TcpLogs : IsPrefix(t.log, l)
         /\ t.res.success =>
              /\ t.log = TcpDelivered
              /\ t.client = "closed"
              /\ t.res.mode = "tcp"
              /\ t.dest = [host |-> t.req.printerIp, port |-> RAW_PORT]
              /\ t.req.raw = Literal => t.sent = <<84, 69, 83, 84>>

\* The literal TEST was delivered: connect, write, end, close, success.
C10_Witness ==
  /\ task[1].req.raw = Literal
  /\ task[1].res = Success("tcp", "Raw TCP sent to printer")
  /\ task[1].sent = <<84, 69, 83, 84>>
  /\ task[1].log = TcpDelivered

TcpErrorThenClose ==
  <<"net.connect", "on.connect", "socket.write", "socket.end", "on.error",
    "res.json", "on.close">>

\* C11: in a TCP dispatch, once the socket has reported an error before its
\* close event, the job is answered with success:false (status 500), it is
\* answered exactly once, and the close event that follows the error does not
\* turn the answer into a success.
C11_TcpErrorNeverSuccess ==
  \A j \in Slots :
    LET t == task[j]
    IN (Dispatched(j) /\ ModeOf(t.req) = TCP /\ Occurs("on.error", t.log)) =>
         /\ t.pc = "done"
         /\ t.res = Failure(HTTP_SERVER_ERROR, "connect ECONNREFUSED")
         /\ t.promise = "rejected"
         /\ Count("res.json", t.log) = 1
         /\ t.client \in {"errored", "closed"}

\* The socket connected, was written to, reported an error and then closed:
\* the job stays answered with the failure.
C11_Witness ==
  /\ task[1].req.mode = TCP
  /\ task[1].log = TcpErrorThenClose
  /\ task[1].client = "closed"
  /\ ~task[1].res.success

\* The number of driver invocations in a log: spool calls, socket connects and
\* Print-Job exchanges.
DriverCalls(l) == Count("print", l) + Count("net.connect", l) + Count("ipp.execute", l)

\* C12: every dispatch invokes at most one transport driver and at most once,
\* the one of its mode (os: the spooler; tcp: a socket to printerIp port 9100;
\* ipp: a Print-Job to printerIp port 631), and makes at most one fetch; a
\* failed step is never attempted again.
C12_OneDriverOnce ==
  \A j \in Slots :
    LET t == task[j]
    IN /\ DriverCalls(t.log) <= 1
       /\ Count("fetch", t.log) <= 1
       /\ Count("fetch.response", t.log) <= 1
       /\ Count("fs.writeFile", t.log) <= 1
       /\ Occurs("print", t.log) => Dispatched(j) /\ ModeOf(t.req) = OS
       /\ Occurs("net.connect", t.log) =>
            /\ Dispatched(j) /\ ModeOf(t.req) = TCP
            /\ t.dest = [host |-> t.req.printerIp, port |-> RAW_PORT]
       /\ Occurs("ipp.execute", t.log) =>
            /\ Dispatched(j) /\ ModeOf(t.req) = IPP
            /\ t.dest = [host |-> t.req.printerIp, port |-> IPP_PORT]
       /\ (t.pc = "done" /\ ~t.res.success) => t.log[Len(t.log)] \in {"res.json", "res.end"}
                                               \/ t.log[Len(t.log)] = "on.close"

\* An IPP job fetched its file, executed one Print-Job, was called back with
\* an error and ended with a failure: nothing was tried a second time.
C12_Witness ==
  /\ task[1].req.mode = IPP
  /\ task[1].pc = "done"
  /\ task[1].res = Failure(HTTP_SERVER_ERROR, "socket hang up")
  /\ task[1].log = <<"fetch", "fetch.response", "fetch.body", "ipp.execute",
                     "ipp.callback", "res.json">>

\* The driver of the mode of job j was invoked and reported completion.
DriverCompleted(j) ==
  LET t == task[j]
  IN CASE ModeOf(t.req) = OS ->
            /\ t.res.mode = "os"
            /\ Before("print", "print.return", t.log)
            /\ t.wrote = "ok"
            /\ t.printed = "resolved"
       [] ModeOf(t.req) = TCP ->
            /\ t.res.mode = "tcp"
            /\ Occurs("net.connect", t.log) /\ Occurs("on.close", t.log)
            /\ ~Occurs("on.error", t.log)
            /\ t.client = "closed"
       [] ModeOf(t.req) = IPP ->
            /\ t.res.mode = "ipp"
            /\ Occurs("ipp.execute", t.log) /\ Occurs("ipp.callback", t.log)
            /\ t.promise = "fulfilled"
       [] OTHER -> FALSE

\* C13: success:true is answered only to a dispatched job whose mode's driver
\* was invoked and reported completion (the spool call returned, the socket
\* closed without an error, the IPP callback came without an error), and the
\* answer carries that mode; a job is answered at most once, with a success or
\* with one error, and never with a success after a failure was raised.
C13_SuccessMeansDriverCompleted ==
  \A j \in Slots :
    LET t == task[j]
    IN /\ Count("res.json", t.log) + Count("res.end", t.log)
            = (IF t.pc = "done" THEN 1 ELSE 0)
       /\ t.pc # "done" => t.res = NoRes
       /\ t.pc = "done" => (t.res.success <=> t.res.status = HTTP_OK)
       /\ (t.res.success /\ t.req.route = "POST /print") =>
            /\ Dispatched(j)
            /\ t.pc = "done"
            /\ DriverCompleted(j)
            /\ ~FailureRaised(j)
       /\ (Dispatched(j) /\ t.pc = "done" /\ FailureRaised(j)) =>
            /\ ~t.res.success
            /\ t.res.status = HTTP_SERVER_ERROR

\* An OS job fetched its file, the spool call returned, and it was answered
\* {success: true, mode: "os"}.
C13_Witness ==
  /\ task[1].req.mode = OS
  /\ task[1].req.fileUrl = Url
  /\ task[1].res = Success("os", "Sent to OS print spooler")
  /\ task[1].log = <<"fetch", "fetch.response", "fetch.body", "fs.mkdir",
                     "fs.writeFile", "print", "print.return", "fs.unlink", "res.json">>

\* The completion of the external call job j waits for, or the arrival of a
\* request in an idle slot j.
JobStep(j) ==
  \/ task[j].pc = "idle" /\ \E r \in CoreJobs, w \in WriteOutcomes : Receive(j, r, w)
  \/ \E o \in FetchOutcomes : FetchResponse(j, o)
  \/ \E ok \in BOOLEAN, body \in FetchBodies, w \in WriteOutcomes :
       FetchBody(j, ok, body, w)
  \/ \E ok \in BOOLEAN, unlinked \in BOOLEAN : SpoolReturn(j, ok, unlinked)
  \/ TcpConnect(j)
  \/ TcpError(j)
  \/ TcpClose(j)
  \/ \E err \in BOOLEAN, st \in IppStatuses : IppCallback(j, err, st)
  \/ \E ok \in BOOLEAN : GetPrintersReturn(j, ok)

\* The socket of job i is connected and its close event has not come.
Hung(i) == task[i].pc = "tcp" /\ task[i].client = "open"

\* C14: while the socket of one job stays connected without closing, every
\* other slot can proceed: a request can arrive in it, and a job in it that has
\* no result yet can take the step that brings it to its result.
C14_OthersProceed ==
  \A i, j \in Slots :
    (i # j /\ Hung(i) /\ task[j].pc # "done") => ENABLED JobStep(j)

\* What a job made of its request: everything but the request itself and the
\* clock value in the name of its temp file.
Conduct(t) == [t EXCEPT !.req = NoReq, !.filePath = IF @ = NoPath THEN NoPath ELSE 0]

\* What the environment answered to a job so far is seen in its log (the call
\* that follows an answer), in fetched, wrote, spoolRead and spooled.
SameAnswers(a, b) ==
  /\ a.log = b.log
  /\ a.fetched = b.fetched
  /\ a.wrote = b.wrote
  /\ a.spoolRead = b.spoolRead
  /\ a.spooled = b.spooled

\* C15: a job without a mode field is dispatched as the same job with mode
\* "os": it never reaches the socket or the IPP driver nor the unsupported-mode
\* answer, and after the same answers of the environment it has made the same
\* calls, holds the same bytes and has the same result as its twin.  An OS job
\* without printerName calls the spooler with no printer option, and a spool
\* call that succeeded is answered {success: true, mode: "os"}.
C15_AbsentModeIsOs ==
  LET a == task[1]
      b == task[2]
  IN /\ (a.pc # "idle" /\ a.req.mode = Undef) =>
          /\ ~Occurs("net.connect", a.log)
          /\ ~Occurs("ipp.execute", a.log)
          /\ a.res.text # "Unsupported mode"
     /\ (a.pc # "idle" /\ b.pc # "idle" /\ a.req.mode = Undef
         /\ b.req = [a.req EXCEPT !.mode = OS] /\ SameAnswers(a, b))
        => Conduct(a) = Conduct(b)
     /\ \A j \in {1, 2} :
          LET t == task[j]
          IN /\ (Occurs("print", t.log) /\ ~Truthy(t.req.printerName))
                  => t.options = Undef
             /\ (Occurs("fs.unlink", t.log) /\ t.pc = "done")
                  => t.res = Success("os", "Sent to OS print spooler")

\* {fileBase64: "application/pdf;base64,JVBERi0x"} without mode and without
\* printerName, and its twin with mode "os", were both spooled as %PDF-1 with
\* no printer option and answered {success: true, mode: "os"}.
C15_Witness ==
  /\ task[1].req.mode = Undef
  /\ task[2].req.mode = OS
  /\ \A j \in {1, 2} :
       /\ task[j].req.fileBase64 = InlinePdf
       /\ task[j].req.printerName = Undef
       /\ task[j].buffer = <<37, 80, 68, 70, 45, 49>>
       /\ task[j].options = Undef
       /\ task[j].res = Success("os", "Sent to OS print spooler")

IppFetched == <<"fetch", "fetch.response", "fetch.body", "ipp.execute">>
IppInline == <<"ipp.execute">>

\* C16: an IPP dispatch executes its one Print-Job only when the payload is
\* wholly resolved (the inline data decoded, or the fetch and its body
\* complete); the job is answered only after the callback: with success:false
\* when the callback brings an error, and with {success: true, mode: "ipp"}
\* when it brings none, whatever the status of the response.
C16_IppExchange ==
  \A j \in Slots :
    LET t == task[j]
        b64 == t.req.fileBase64
    IN (Dispatched(j) /\ ModeOf(t.req) = IPP /\ Occurs("ipp.execute", t.log)) =>
         /\ Count("ipp.execute", t.log) = 1
         /\ Count("ipp.callback", t.log) <= 1
         /\ IF Truthy(b64)
            THEN /\ IsPrefix(IppInline, t.log)
                 /\ t.buffer = BufferFromBase64(FileMatchGroup(b64.v))
            ELSE /\ IsPrefix(IppFetched, t.log)
                 /\ t.fetched = "ok"
                 /\ t.buffer \in FetchBodies
         /\ ~Occurs("ipp.callback", t.log) => t.pc = "ipp" /\ t.res = NoRes
         /\ Occurs("ipp.callback", t.log) =>
              /\ t.pc = "done"
              /\ t.promise \in {"fulfilled", "rejected"}
              /\ t.promise = "rejected" =>
                   /\ t.ippStatus = ""
                   /\ t.res = Failure(HTTP_SERVER_ERROR, "socket hang up")
              /\ t.ippStatus # "" => t.res.success
              /\ t.promise = "fulfilled" =>
                   /\ t.ippStatus \in IppStatuses
                   /\ t.res = Success("ipp", "IPP job sent")

\* The printer answered the Print-Job with the status
\* client-error-document-format-not-supported and no error was passed to the
\* callback: the job was answered with a success.
C16_Witness ==
  /\ task[1].req.mode = IPP
  /\ task[1].ippStatus = "client-error-document-format-not-supported"
  /\ task[1].promise = "fulfilled"
  /\ task[1].res = Success("ipp", "IPP job sent")

\* C17: an OS dispatch tries to remove its temp file only once its spool call
\* has returned, never while the call is pending; and a job that got as far as
\* the removal is answered {success: true, mode: "os"} whether the removal
\* worked or not.
C17_UnlinkAfterSpoolReturn ==
  \A j \in Slots :
    LET t == task[j]
    IN /\ t.pc = "spool" => ~Occurs("fs.unlink", t.log) /\ ~Occurs("print.return", t.log)
       /\ Occurs("fs.unlink", t.log) =>
            /\ Count("fs.unlink", t.log) = 1
            /\ Before("fs.writeFile", "print", t.log)
            /\ Before("print", "print.return", t.log)
            /\ Before("print.return", "fs.unlink", t.log)
            /\ Before("fs.unlink", "res.json", t.log)
            /\ t.res = Success("os", "Sent to OS print spooler")

\* The spool call succeeded, the removal of the temp file failed (the file is
\* still there), and the job was answered with a success.
C17_Witness ==
  /\ task[1].pc = "done"
  /\ Occurs("fs.unlink", task[1].log)
  /\ task[1].filePath # NoPath
  /\ fs[task[1].filePath].exists
  /\ task[1].res = Success("os", "Sent to OS print spooler")

\* C18: a dispatched job has exactly one result, or it has none yet and the
\* completion of the external call it waits for can still take place and
\* bring it on; no job is left without a result and without a next step.
C18_EveryJobEnds ==
  \A j \in Slots :
    Dispatched(j) =>
      \/ task[j].pc = "done" /\ Count("res.json", task[j].log) = 1
      \/ /\ task[j].pc # "done"
         /\ Count("res.json", task[j].log) = 0
         /\ ENABLED JobStep(j)

\* The key a request presents: its x-api-key header, or its api_key query
\* parameter when it has no such header.
Presented(r) == IF r.hdrKey \in {Undef, Str(<<>>)} THEN r.qryKey ELSE r.hdrKey

====
